---- MODULE Spec2Model ----
(***************************************************************************)
(* finity-auth-starter backend: the role guards of app/core/deps.py and    *)
(* the profile, deletion and administrative routes of app/routes/users.py, *)
(* running against one shared User Directory.                              *)
(*                                                                         *)
(* Every credential (one per user id) has at most one request in flight.   *)
(* A request is handled in steps, one step per access to the directory     *)
(* (a query, a commit); between two steps of one request the steps of      *)
(* other requests may run.  Spec allows every interleaving and draws each   *)
(* field of an update's body when the handler reads it; SpecSeq starts a   *)
(* request, with its whole body, only when no other request is in flight.  *)
(***************************************************************************)
EXTENDS Integers, Sequences, FiniteSets, TLC

VARIABLES
    db,     \* the User Directory: committed rows, a function from the ids present
    pc,     \* per credential: where its request in flight stands, "idle" if none
    req,    \* per credential: the request in flight or done, NoReq when idle
    cur,    \* per credential: current_user, the session's own copy of the row
    acc,    \* per credential: the counts get_admin_stats has read so far
    out,    \* per credential: the response, once its request is done
    old,    \* per credential: the row as get_current_user loaded it
    first,  \* per credential: the response to the request that the one in
            \* flight repeats, or NoOut when it repeats none
    nreq    \* the number of requests received so far

vars == <<db, pc, req, cur, acc, out, old, first, nreq>>

-----------------------------------------------------------------------------
(* Bounds and domains *)

NumUsers == 2

\* The number of requests the service receives in one run.
MaxRequests == 2

Users == 1..NumUsers

\* Python's None, as the value of an Optional field or return.
None == "None"

\* A field left out of the request body, and a field sent as JSON null.
Unset == "<unset>"
Null == "<null>"

USER == "USER"
ADMIN == "ADMIN"
UserRole == {USER, ADMIN}

\* UserRole.<R>.value
RoleValue(r) == IF r = ADMIN THEN "admin" ELSE "user"

\* One address and one name per user, and one spare of each that nobody holds
\* at the start.
EmailOf(i) == "u" \o ToString(i) \o "@x.com"
UsernameOf(i) == "user" \o ToString(i)
Emails == {EmailOf(i) : i \in 1..(NumUsers + 1)}
Usernames == {UsernameOf(i) : i \in 1..(NumUsers + 1)}
FullNames == {"", "Al"}

\* The row registration left for user i: user 2 is the administrator.
InitialUser(i) ==
    [id |-> i, email |-> EmailOf(i), username |-> UsernameOf(i),
     full_name |-> None, role |-> IF i = 2 THEN ADMIN ELSE USER,
     is_active |-> TRUE, is_verified |-> (i # 2)]

NoUser == [id |-> 0]
NoReq == [op |-> "none"]
NoOut == [status |-> 0]

-----------------------------------------------------------------------------
(* Requests *)

\* A field of a request body that the handler has not read yet.
Unread == "<unread>"

\* The values a request may give each field of the body of PUT /me.
BodyFields ==
    [email |-> {Unset} \cup Emails,
     username |-> {Unset} \cup Usernames,
     full_name |-> {Unset, Null} \cup FullNames]

\* The JSON bodies of PUT /me.
Bodies ==
    [email : BodyFields.email,
     username : BodyFields.username,
     full_name : BodyFields.full_name]

\* A body none of whose fields is read yet.
UnreadBody == [email |-> Unread, username |-> Unread, full_name |-> Unread]

\* The bodies the handler may find itself reading when it reads field name of
\* body: the body itself or, if the field is not read yet, the body with any
\* value there.
Reading(body, name) ==
    IF body[name] = Unread
    THEN {[body EXCEPT ![name] = v] : v \in BodyFields[name]}
    ELSE {body}

\* The UserUpdate schema: a field left out and a field sent as null both read
\* as None.
UserUpdate(body) ==
    [email |-> IF body.email \in {Unset, Null} THEN None ELSE body.email,
     username |-> IF body.username \in {Unset, Null} THEN None ELSE body.username,
     full_name |-> IF body.full_name \in {Unset, Null} THEN None ELSE body.full_name]

\* Python's truth value of an Optional[str].
Truthy(x) == x \notin {None, ""}

\* The requests without a body.
OtherRequests ==
    {[op |-> "delete"], [op |-> "stats"], [op |-> "list"]}
    \cup {[op |-> "guard", role |-> r] : r \in UserRole}

\* The requests, each profile update with its whole body.
Requests == {[op |-> "update", body |-> b] : b \in Bodies} \cup OtherRequests

\* The requests, a profile update with a body whose fields are drawn as the
\* handler reads them: the same behaviours in fewer states.
RequestsRead == {[op |-> "update", body |-> UnreadBody]} \cup OtherRequests

-----------------------------------------------------------------------------
(* Responses *)

Ok(body) == [status |-> 200, detail |-> "", body |-> body]
NoContent == [status |-> 204, detail |-> "", body |-> None]
HTTPException(status, detail) == [status |-> status, detail |-> detail, body |-> None]

\* get_current_user: the row of the credential's user, or 401.
Unauthenticated == HTTPException(401, "Could not validate credentials")

GetCurrentUser(d, u) == IF u \in DOMAIN d THEN Ok(d[u]) ELSE Unauthenticated

-----------------------------------------------------------------------------
(* app/core/deps.py *)

\* require_role with the comparison turned around.
RoleChecker_Inverted(required_role, current_user) ==
    IF current_user.role = required_role
    THEN HTTPException(403, "Access denied. Required role: " \o RoleValue(required_role))
    ELSE Ok(current_user)

\* require_role(required_role) applied to the resolved identity: the identity
\* itself, or 403.
RoleChecker(required_role, current_user) ==
    IF current_user.role # required_role
    THEN HTTPException(403, "Access denied. Required role: " \o RoleValue(required_role))
    ELSE Ok(current_user)

\* require_admin applied to the resolved identity.
RequireAdmin(current_user) ==
    IF current_user.role # ADMIN
    THEN HTTPException(403, "Access denied. Admin role required.")
    ELSE Ok(current_user)

\* The dependency of each route, applied to the resolved identity.
Dependency(r, current_user) ==
    CASE r.op \in {"stats", "list"} -> RequireAdmin(current_user)
      [] r.op = "guard" -> RoleChecker(r.role, current_user)
      [] OTHER -> Ok(current_user)

-----------------------------------------------------------------------------
(* The User Directory *)

\* An email query that never finds a row.
EmailTaken_Never(d, email) == FALSE

\* db.query(User).filter(User.email == email).first() finds a row.
EmailTaken(d, email) == \E i \in DOMAIN d : d[i].email = email

\* db.query(User).filter(User.username == username).first() finds a row.
UsernameTaken(d, username) == \E i \in DOMAIN d : d[i].username = username

\* db.commit() of a session whose current_user is dirty.
DbCommit(d, current_user) == [d EXCEPT ![current_user.id] = current_user]

\* A delete that is never committed.
DbDelete_NoCommit(d, current_user) == d

\* db.delete(current_user); db.commit().
DbDelete(d, current_user) ==
    [i \in DOMAIN d \ {current_user.id} |-> d[i]]

\* db.query(User).all()
AllUsers(d) == {d[i] : i \in DOMAIN d}

-----------------------------------------------------------------------------
(* app/routes/users.py: update_user_profile *)

\* Line 26 without its comparison with the current email.
EmailChanged_NoSelfTest(user_update, current_user) ==
    Truthy(user_update.email)

\* "email is being changed": line 26.
EmailChanged(user_update, current_user) ==
    Truthy(user_update.email) /\ user_update.email # current_user.email

\* "username is being changed": line 36.
UsernameChanged(user_update, current_user) ==
    Truthy(user_update.username) /\ user_update.username # current_user.username

\* Lines 45-46 with a truth test in place of "is not None".
ApplyFullName_Truthy(user_update, current_user) ==
    IF Truthy(user_update.full_name)
    THEN [current_user EXCEPT !.full_name = user_update.full_name]
    ELSE current_user

\* Lines 45-46.
ApplyFullName(user_update, current_user) ==
    IF user_update.full_name # None
    THEN [current_user EXCEPT !.full_name = user_update.full_name]
    ELSE current_user

\* A request of credential u ends with response o; the session keeps user.
Respond(u, o, user) ==
    /\ pc' = [pc EXCEPT ![u] = "done"]
    /\ out' = [out EXCEPT ![u] = o]
    /\ cur' = [cur EXCEPT ![u] = user]

\* A request of credential u moves on to step next; the session keeps user.
Goto(u, next, user) ==
    /\ pc' = [pc EXCEPT ![u] = next]
    /\ cur' = [cur EXCEPT ![u] = user]
    /\ out' = [out EXCEPT ![u] = NoOut]

\* Lines 26-33: the email check, and the assignment when the email is free.
CheckEmail(u) ==
    /\ pc[u] = "check_email"
    /\ \E body \in Reading(req[u].body, "email") :
       LET user_update == UserUpdate(body)
           current_user == cur[u]
       IN  /\ req' = [req EXCEPT ![u].body = body]
           /\ IF EmailChanged(user_update, current_user)
              THEN IF EmailTaken(db, user_update.email)
                   THEN Respond(u, HTTPException(400, "Email already registered"),
                                current_user)
                   ELSE Goto(u, "check_username",
                             [current_user EXCEPT !.email = user_update.email])
              ELSE Goto(u, "check_username", current_user)
    /\ UNCHANGED <<db, acc, old, first, nreq>>

\* Lines 36-43: the username check, and the assignment when the name is free.
CheckUsername(u) ==
    /\ pc[u] = "check_username"
    /\ \E body \in Reading(req[u].body, "username") :
       LET user_update == UserUpdate(body)
           current_user == cur[u]
       IN  /\ req' = [req EXCEPT ![u].body = body]
           /\ IF UsernameChanged(user_update, current_user)
              THEN IF UsernameTaken(db, user_update.username)
                   THEN Respond(u, HTTPException(400, "Username already taken"),
                                current_user)
                   ELSE Goto(u, "commit",
                             [current_user EXCEPT !.username = user_update.username])
              ELSE Goto(u, "commit", current_user)
    /\ UNCHANGED <<db, acc, old, first, nreq>>

\* Lines 45-51: full_name, the commit, the refresh and the return.
CommitProfile(u) ==
    /\ pc[u] = "commit"
    /\ \E body \in Reading(req[u].body, "full_name") :
       LET current_user == ApplyFullName(UserUpdate(body), cur[u])
       IN  /\ req' = [req EXCEPT ![u].body = body]
           /\ db' = DbCommit(db, current_user)
           /\ Respond(u, Ok(db'[u]), db'[u])
    /\ UNCHANGED <<acc, old, first, nreq>>

-----------------------------------------------------------------------------
(* app/routes/users.py: delete_user_account *)

\* Lines 60-62.
DeleteUserAccount(u) ==
    /\ pc[u] = "delete"
    /\ db' = DbDelete(db, cur[u])
    /\ Respond(u, NoContent, cur[u])
    /\ UNCHANGED <<req, acc, old, first, nreq>>

-----------------------------------------------------------------------------
(* app/routes/users.py: list_all_users, get_admin_stats *)

\* Line 71-72.
ListAllUsers(u) ==
    /\ pc[u] = "list"
    /\ Respond(u, Ok(AllUsers(db)), cur[u])
    /\ UNCHANGED <<db, req, acc, old, first, nreq>>

\* The count queries with the total read last.
StatsQueries_TotalLast == <<"active_users", "verified_users", "admin_users", "total_users">>

\* The four count queries, in the order lines 81-85 run them.
StatsQueries == <<"total_users", "active_users", "verified_users", "admin_users">>

\* The filter of each count query.
StatsFilter(name, user) ==
    CASE name = "total_users" -> TRUE
      [] name = "active_users" -> user.is_active = TRUE
      [] name = "verified_users" -> user.is_verified = TRUE
      [] name = "admin_users" -> user.role = ADMIN

\* db.query(User).filter(...).count()
Count(d, name) == Cardinality({i \in DOMAIN d : StatsFilter(name, d[i])})

\* The count that query name returned, among the pairs read.
CountOf(read, name) ==
    read[CHOOSE k \in 1..Len(read) : read[k][1] = name][2]

\* Lines 87-92: the dictionary returned.
StatsResult(read) ==
    [total_users |-> CountOf(read, "total_users"),
     active_users |-> CountOf(read, "active_users"),
     verified_users |-> CountOf(read, "verified_users"),
     admin_users |-> CountOf(read, "admin_users")]

\* One count query of get_admin_stats; the last one returns the result.
GetAdminStats(u) ==
    /\ pc[u] = "stats"
    /\ LET name == StatsQueries[Len(acc[u]) + 1]
           read == Append(acc[u], <<name, Count(db, name)>>)
       IN  /\ acc' = [acc EXCEPT ![u] = read]
           /\ IF Len(read) = Len(StatsQueries)
              THEN Respond(u, Ok(StatsResult(read)), cur[u])
              ELSE Goto(u, "stats", cur[u])
    /\ UNCHANGED <<db, req, old, first, nreq>>

-----------------------------------------------------------------------------
(* Requests arriving and leaving *)

\* The first step of each route's handler.
FirstStep(r) ==
    CASE r.op = "update" -> "check_email"
      [] r.op = "delete" -> "delete"
      [] r.op = "stats" -> "stats"
      [] r.op = "list" -> "list"

\* Depends(get_current_user) and the route's own dependency: the request of
\* credential u is rejected with 401 or 403, or its handler starts.
Resolve(u, r) ==
    LET resolved == GetCurrentUser(db, u)
    IN  IF resolved.status # 200
        THEN /\ Respond(u, resolved, NoUser)
             /\ old' = [old EXCEPT ![u] = NoUser]
        ELSE LET current_user == resolved.body
                 guard == Dependency(r, current_user)
             IN  /\ old' = [old EXCEPT ![u] = current_user]
                 /\ IF guard.status # 200 \/ r.op = "guard"
                    THEN Respond(u, guard, current_user)
                    ELSE Goto(u, FirstStep(r), current_user)

\* Credential u sends request r.
Begin(u, r) ==
    /\ pc[u] = "idle"
    /\ nreq < MaxRequests
    /\ nreq' = nreq + 1
    /\ req' = [req EXCEPT ![u] = r]
    /\ Resolve(u, r)
    /\ UNCHANGED <<db, acc, first>>

\* Credential u sends its profile update a second time, right after the
\* response to the first.
Resubmit(u) ==
    /\ pc[u] = "done"
    /\ req[u].op = "update"
    /\ \A v \in Users \ {u} : pc[v] = "idle"
    /\ nreq < MaxRequests
    /\ nreq' = nreq + 1
    /\ first' = [first EXCEPT ![u] = out[u]]
    /\ Resolve(u, req[u])
    /\ UNCHANGED <<db, req, acc>>

\* The response of credential u has been delivered; its session is closed.
Close(u) ==
    /\ pc[u] = "done"
    /\ pc' = [pc EXCEPT ![u] = "idle"]
    /\ req' = [req EXCEPT ![u] = NoReq]
    /\ cur' = [cur EXCEPT ![u] = NoUser]
    /\ acc' = [acc EXCEPT ![u] = <<>>]
    /\ out' = [out EXCEPT ![u] = NoOut]
    /\ old' = [old EXCEPT ![u] = NoUser]
    /\ first' = [first EXCEPT ![u] = NoOut]
    /\ UNCHANGED <<db, nreq>>

\* Credential u sends request r while no other request is in flight.
BeginSeq(u, r) ==
    /\ \A v \in Users : pc[v] = "idle"
    /\ Begin(u, r)

-----------------------------------------------------------------------------

Init ==
    /\ db = [i \in Users |-> InitialUser(i)]
    /\ pc = [u \in Users |-> "idle"]
    /\ req = [u \in Users |-> NoReq]
    /\ cur = [u \in Users |-> NoUser]
    /\ acc = [u \in Users |-> <<>>]
    /\ out = [u \in Users |-> NoOut]
    /\ old = [u \in Users |-> NoUser]
    /\ first = [u \in Users |-> NoOut]
    /\ nreq = 0

Step(u) ==
    \/ CheckEmail(u)
    \/ CheckUsername(u)
    \/ CommitProfile(u)
    \/ DeleteUserAccount(u)
    \/ ListAllUsers(u)
    \/ GetAdminStats(u)
    \/ Resubmit(u)
    \/ Close(u)

Next ==
    \/ \E u \in Users, r \in RequestsRead : Begin(u, r)
    \/ \E u \in Users : Step(u)

NextSeq ==
    \/ \E u \in Users, r \in Requests : BeginSeq(u, r)
    \/ \E u \in Users : Step(u)

\* Requests interleave step by step.
Spec == Init /\ [][Next]_vars

\* Requests are handled one at a time.
SpecSeq == Init /\ [][NextSeq]_vars

-----------------------------------------------------------------------------
(* Properties *)

\* A request of credential u is done, and get_current_user resolved it.
Done(u) == pc[u] = "done" /\ out[u].status # 401

DoneUpdate(u) == Done(u) /\ req[u].op = "update"

Conflict(u, detail) == out[u].status = 400 /\ out[u].detail = detail

\* C1: the guard require_role(R1) returns the resolved identity itself when
\* its role is R1, and answers 403 with no identity when its role is another
\* one; it returns no identity whose role is not R1.
C1_RoleGuard ==
    \A u \in Users :
        (Done(u) /\ req[u].op = "guard") =>
            IF old[u].role = req[u].role
            THEN out[u].status = 200 /\ out[u].body = old[u]
            ELSE out[u].status = 403 /\ out[u].body = None

\* C1: a guard for one role has rejected an identity of the other role.
C1_Witness ==
    \E u \in Users :
        /\ Done(u) /\ req[u].op = "guard"
        /\ req[u].role = ADMIN /\ old[u].role = USER
        /\ out[u].status = 403

\* C2: on every request to an administrative route, require_admin answers
\* what require_role(ADMIN) answers for the same identity: the same decision,
\* and on a rejection the same 403 response.
C2_AdminGuardIsRoleGuard ==
    \A u \in Users :
        (pc[u] # "idle" /\ req[u].op \in {"stats", "list"} /\ old[u] # NoUser) =>
            LET by_role == RoleChecker(ADMIN, old[u])
            IN  IF by_role.status = 200
                THEN ~(pc[u] = "done" /\ out[u].status = 403)
                ELSE /\ pc[u] = "done"
                     /\ out[u].status = by_role.status
                     /\ out[u].detail = by_role.detail

\* C3: an update by A whose email is the one another user B holds ends with
\* 400 "Email already registered" and A's row and identity record are as they
\* were loaded, whatever username and full_name the request carries.
C3_EmailConflict ==
    \A a \in Users :
        (DoneUpdate(a) /\ a \in DOMAIN db
         /\ \E b \in DOMAIN db \ {a} : db[b].email = req[a].body.email) =>
            /\ Conflict(a, "Email already registered")
            /\ db[a] = old[a]
            /\ cur[a] = old[a]

\* C3: such an update was rejected although its username was free and its
\* full_name was given.
C3_Witness ==
    \E a \in Users :
        /\ DoneUpdate(a) /\ a \in DOMAIN db
        /\ \E b \in DOMAIN db \ {a} : db[b].email = req[a].body.email
        /\ req[a].body.username \in Usernames
        /\ ~UsernameTaken(db, req[a].body.username)
        /\ req[a].body.full_name = "Al"
        /\ Conflict(a, "Email already registered")

\* C4: an update rejected with 400 "Username already taken" has persisted no
\* field of the caller's row and left no field of the identity record changed.
C4_UsernameConflictAtomic ==
    \A u \in Users :
        (DoneUpdate(u) /\ Conflict(u, "Username already taken")) =>
            /\ db[u] = old[u]
            /\ cur[u] = old[u]

\* C5: no two rows of the User Directory hold the same email.
C5_EmailUnique ==
    \A i, j \in DOMAIN db : i # j => db[i].email # db[j].email

\* C6, the state part: a finished delete has removed the row, and a credential
\* whose row is gone has no handler running: its request, if any, is the
\* finished delete or one answered 401.
C6_Gone ==
    \A u \in Users :
        /\ (pc[u] = "done" /\ req[u].op = "delete" /\ out[u].status = 204)
               => u \notin DOMAIN db
        /\ u \notin DOMAIN db =>
               \/ pc[u] = "idle"
               \/ pc[u] = "done" /\ out[u].status = 401
               \/ pc[u] = "done" /\ req[u].op = "delete" /\ out[u].status = 204

\* C6, the step part: a row that is gone stays gone, and the delete handler,
\* once the identity is resolved, deletes without any further check.
C6_Step ==
    \A u \in Users :
        /\ u \notin DOMAIN db => u \notin DOMAIN db'
        /\ (pc[u] = "delete" /\ pc'[u] # "delete")
               => out'[u].status = 204 /\ u \notin DOMAIN db'

\* C6: after a self-delete the row is absent and every later request with the
\* same credential is answered 401, never 403 and never a success; the delete
\* checks nothing beyond the resolution of the identity.
C6_DeleteThenUnauthenticated == []C6_Gone /\ [][C6_Step]_vars

\* C6: a request sent after the delete has been answered 401.
C6_Witness ==
    \E u \in Users :
        /\ u \notin DOMAIN db
        /\ pc[u] = "done" /\ req[u].op # "delete" /\ out[u].status = 401

\* C7: every result of get_admin_stats has admin_users, active_users and
\* verified_users at most total_users.
C7_StatsBounded ==
    \A u \in Users :
        (Done(u) /\ req[u].op = "stats" /\ out[u].status = 200) =>
            /\ out[u].body.admin_users <= out[u].body.total_users
            /\ out[u].body.active_users <= out[u].body.total_users
            /\ out[u].body.verified_users <= out[u].body.total_users

\* C7: a result whose counts were read on both sides of a delete.
C7_Witness ==
    \E u \in Users :
        /\ Done(u) /\ req[u].op = "stats" /\ out[u].status = 200
        /\ out[u].body.active_users < out[u].body.total_users
        /\ Count(db, "total_users") < out[u].body.total_users

\* C8: a profile update sent a second time right after its response gets the
\* same response, and leaves the caller's row as the first one left it.
C8_UpdateIdempotent ==
    \A u \in Users :
        (pc[u] = "done" /\ first[u] # NoOut) =>
            /\ out[u].status = first[u].status
            /\ out[u].detail = first[u].detail
            /\ out[u].status = 200 => out[u].body = first[u].body
            /\ u \in DOMAIN db => db[u] = old[u]

\* C8: an update that changed the row was sent twice and succeeded twice.
C8_Witness ==
    \E u \in Users :
        /\ pc[u] = "done" /\ first[u] # NoOut
        /\ first[u].status = 200 /\ out[u].status = 200
        /\ db[u].email # InitialUser(u).email
        /\ db[u].full_name = "Al"

\* C9: while the username check of an update is still to come, its email has
\* not been assigned to the identity record.
C9_ChecksBeforeWrites ==
    \A u \in Users :
        pc[u] = "check_username" => cur[u].email = old[u].email

\* The fields of the row after a successful update that the request left out.
OmittedKept(u) ==
    /\ req[u].body.email = Unset => db[u].email = old[u].email
    /\ req[u].body.username = Unset => db[u].username = old[u].username
    /\ req[u].body.full_name = Unset => db[u].full_name = old[u].full_name

\* C10: a successful update sets full_name to the value the request gives,
\* an explicit null or empty value included, and keeps every field the request
\* leaves out.
C10_FullNameApplied ==
    \A u \in Users :
        (DoneUpdate(u) /\ out[u].status = 200) =>
            /\ req[u].body.full_name = Null => db[u].full_name = None
            /\ req[u].body.full_name \in FullNames
                   => db[u].full_name = req[u].body.full_name
            /\ OmittedKept(u)

\* C10, amended: a successful update sets full_name to the value the request
\* gives when that value is not null, the empty string included; with an
\* explicit null, as with the field left out, full_name keeps its value; and
\* every field the request leaves out is kept.
C10_FullNameAppliedUnlessNull ==
    \A u \in Users :
        (DoneUpdate(u) /\ out[u].status = 200) =>
            /\ req[u].body.full_name = Null => db[u].full_name = old[u].full_name
            /\ req[u].body.full_name \in FullNames
                   => /\ db[u].full_name = req[u].body.full_name
                      /\ out[u].body.full_name = req[u].body.full_name
            /\ OmittedKept(u)

\* C10: an empty full_name has cleared a full_name that was set.
C10_Witness ==
    \E u \in Users :
        /\ DoneUpdate(u) /\ out[u].status = 200
        /\ req[u].body.full_name = "" /\ old[u].full_name = "Al"
        /\ db[u].full_name = ""

=============================================================================
